---- MODULE Spec2Model ----
(***************************************************************************)
(* Verification model of the dbt-core slice:                               *)
(*   core/dbt/task/compile.py                  CompileTask (inline node    *)
(*                                             lifecycle, fail-fast)       *)
(*   core/dbt/parser/schema_yaml_readers.py    exposure / metric / group / *)
(*                                             semantic-model parsers and  *)
(*                                             the metric time-window      *)
(*                                             parser                      *)
(*   core/dbt/semantic/validations/common_identifiers.py                   *)
(*                                             CommonIdentifiersRule       *)
(* Five specifications share the module: Spec (one compile run),           *)
(* SpecWindow (_get_time_window on bounded strings), SpecParse (sequences  *)
(* of parse_* calls on one Manifest), SpecParseBlock (one parse() call on  *)
(* a block of declarations) and SpecValidate (one validation pass).        *)
(* Collaborators whose code is outside the slice (the graph        *)
(* runner, the Manifest's add_* methods, validate_safely) follow the       *)
(* written specification of the system.                                    *)
(***************************************************************************)
EXTENDS Integers, Sequences, FiniteSets, TLC

VARIABLES
    \* ---- compile run (CompileTask over GraphRunnableTask) ----
    pc,               \* "idle" | "init" | "execute" | "done" | "failed"
    args,             \* [inline, select]: the task's command-line arguments
    nodes,            \* keys of manifest.nodes
    pre_run_nodes,    \* keys of manifest.nodes when the run began
    inline_node_id,   \* CompileTask._inline_node_id
    job_queue,        \* selected unique ids, None before the base initialization
    running,          \* worker -> node it executes, or None
    started,          \* nodes handed to a worker so far
    run_results,      \* every RunResult produced, in completion order
    node_results,     \* GraphRunnableTask.node_results (the reported stream)
    raise_next_error, \* GraphRunnableTask._raise_next_error is set
    run_error,        \* exception the run ended with, or None
    \* ---- MetricParser._get_time_window ----
    window_pc,        \* "idle" | "call" | "returned"
    unparsed_window,  \* the argument, an Optional[str]
    window_result,    \* what the call produced
    \* ---- the schema-yaml parsers over one Manifest ----
    enabled,          \* the Manifest's enabled partition: the nodes, one per unique_id
    disabled,         \* the Manifest's disabled partition: file -> list of nodes
    parse_calls,      \* parse_* calls made so far
    last_parse,       \* the node the last call built and the error it raised
    parse_loop,       \* the parse() call over a block: where its loop stands
    \* ---- one validation pass over a UserConfiguredModel ----
    entities,         \* model.entities: a list of [name, identifiers]
    faults,           \* where an internal fault strikes during the pass
    rules_run,        \* rules of the pass that have run, in order
    rule_issues,      \* rule -> the list of issues it returned
    validation_raised \* an exception left a rule and ended the pass

engineVars == <<pc, args, nodes, pre_run_nodes, inline_node_id, job_queue,
                running, started, run_results, node_results,
                raise_next_error, run_error>>

windowVars == <<window_pc, unparsed_window, window_result>>

parseVars == <<enabled, disabled, parse_calls, last_parse>>

loopVars == <<parse_loop>>

validateVars == <<entities, faults, rules_run, rule_issues, validation_raised>>

vars == <<engineVars, windowVars, parseVars, loopVars, validateVars>>

None == "None"

-----------------------------------------------------------------------------
(* Bounds and the project the runs are checked on.                         *)

\* size of the worker pool
NumThreads == 2

Workers == 1..NumThreads

\* unique ids held by manifest.nodes before a run: three models, c selecting
\* from a and b, and one test node
ProjectNodes == {"a", "b", "c", "t"}

\* the unique id of the node parse_remote builds for the inline query
InlineId == "sqloperation.test.inline_query"

\* inline queries by what parsing them does
InlineQueries == {"valid_sql", "syntax_error_sql", "unresolved_ref_sql"}

resource_type(n) ==
    IF n = InlineId THEN "sql_operation"
    ELSE IF n = "t" THEN "unit_test"
    ELSE "model"

depends_on(n) ==
    IF n = "c" THEN {"a", "b"}
    ELSE IF n = InlineId THEN {"a"}
    ELSE IF n = "t" THEN {"c"}
    ELSE {}

is_ephemeral_model(n) == n = "b"

\* NodeType.executable(): the resource types a compile run may select
Executable == {"model", "sql_operation"}

-----------------------------------------------------------------------------
(* CompileTask                                                              *)

raise_on_first_error_off == FALSE

raise_on_first_error == TRUE

\* get_node_selector: the resource types the selector is built with
get_node_selector_resource_types ==
    IF args.inline # None THEN {"sql_operation"} ELSE Executable

\* SqlBlockParser.parse_remote: raises CompilationError on a query it cannot
\* parse, otherwise adds the inline node to the manifest it was built with
parse_remote_raises(q) == q = "syntax_error_sql"

parse_remote(ns, q) == ns \cup {InlineId}

\* process_node: raises CompilationError when a ref of the node is unresolved
process_node_raises(q) == q = "unresolved_ref_sql"

\* the try/except of _runtime_initialize: what the manifest and
\* _inline_node_id are when it is left, and whether DbtException is raised
inline_try_swallow(q) ==
    IF parse_remote_raises(q)
    THEN [raised |-> FALSE, nodes |-> nodes, inline_node_id |-> None]
    ELSE IF process_node_raises(q)
    THEN [raised |-> FALSE, nodes |-> parse_remote(nodes, q), inline_node_id |-> None]
    ELSE [raised |-> FALSE, nodes |-> parse_remote(nodes, q), inline_node_id |-> InlineId]

inline_try(q) ==
    IF parse_remote_raises(q)
    THEN [raised |-> TRUE, nodes |-> nodes, inline_node_id |-> None]
    ELSE IF process_node_raises(q)
    THEN [raised |-> TRUE, nodes |-> parse_remote(nodes, q), inline_node_id |-> None]
    ELSE [raised |-> FALSE, nodes |-> parse_remote(nodes, q), inline_node_id |-> InlineId]

\* GraphRunnableTask._runtime_initialize: the selector picks the job queue
\* among the manifest's nodes of the requested resource types; without a
\* selection argument every such node is selected
SelectionsOf(ns) ==
    LET candidates == {n \in ns : resource_type(n) \in get_node_selector_resource_types}
    IN  IF args.select THEN SUBSET candidates ELSE {candidates}

\* CompileTask._runtime_initialize
_runtime_initialize ==
    /\ pc = "init"
    /\ LET r == IF args.inline # None
                THEN inline_try(args.inline)
                ELSE [raised |-> FALSE, nodes |-> nodes, inline_node_id |-> inline_node_id]
       IN  /\ nodes' = r.nodes
           /\ inline_node_id' = r.inline_node_id
           /\ IF r.raised
              THEN /\ pc' = "failed"
                   /\ run_error' = "Error parsing inline query"
                   /\ job_queue' = job_queue
              ELSE /\ pc' = "execute"
                   /\ run_error' = run_error
                   /\ job_queue' \in SelectionsOf(r.nodes)
    /\ UNCHANGED <<args, pre_run_nodes, running, started, run_results,
                   node_results, raise_next_error>>
    /\ UNCHANGED <<windowVars, parseVars, loopVars, validateVars>>

HasResult(n) == \E i \in 1..Len(run_results) : run_results[i].node = n

\* the graph queue hands out a node once every node it depends on inside the
\* selection has a terminal result
DepsSatisfiedNever(n) == TRUE

DepsSatisfied(n) == \A d \in depends_on(n) \cap job_queue : HasResult(d)

\* run_queue: the coordinating thread hands a ready node to a free worker
\* unless an error is waiting to be raised
Dispatch(w, n) ==
    /\ pc = "execute"
    /\ ~raise_next_error
    /\ running[w] = None
    /\ n \in job_queue \ started
    /\ DepsSatisfied(n)
    /\ running' = [running EXCEPT ![w] = n]
    /\ started' = started \cup {n}
    /\ UNCHANGED <<pc, args, nodes, pre_run_nodes, inline_node_id, job_queue,
                   run_results, node_results, raise_next_error, run_error>>
    /\ UNCHANGED <<windowVars, parseVars, loopVars, validateVars>>

\* GraphRunnableTask._handle_result keeps every result but those of
\* ephemeral models
base_handle_result(results, result) ==
    IF is_ephemeral_model(result.node) THEN results ELSE Append(results, result)

\* CompileTask._handle_result
_handle_result_always(results, result) ==
    LET base == base_handle_result(results, result)
    IN  IF is_ephemeral_model(result.node) THEN Append(base, result) ELSE base

_handle_result(results, result) ==
    LET base == base_handle_result(results, result)
    IN  IF /\ is_ephemeral_model(result.node)
           /\ (args.select \/ args.inline # None)
        THEN Append(base, result)
        ELSE base

\* call_runner on worker w: the node's result comes back, is handled, and an
\* error result arms the raise-on-first-error exception
Complete(w, status) ==
    /\ pc = "execute"
    /\ running[w] # None
    /\ LET result == [node |-> running[w], status |-> status, thread_id |-> w]
       IN  /\ run_results' = Append(run_results, result)
           /\ node_results' = _handle_result(node_results, result)
    /\ raise_next_error' =
           (raise_next_error \/ (status = "error" /\ raise_on_first_error))
    /\ running' = [running EXCEPT ![w] = None]
    /\ UNCHANGED <<pc, args, nodes, pre_run_nodes, inline_node_id, job_queue,
                   started, run_error>>
    /\ UNCHANGED <<windowVars, parseVars, loopVars, validateVars>>

\* the body of CompileTask.after_run: the manifest's node keys it leaves
after_run_nodes_keep == nodes

after_run_nodes ==
    IF inline_node_id # None THEN nodes \ {inline_node_id} ELSE nodes

\* the concurrent phase is over: the queue is exhausted or an error is
\* waiting, and the work already handed out has finished
QueueDrainedEarly == raise_next_error \/ job_queue \subseteq started

QueueDrained ==
    /\ \A w \in Workers : running[w] = None
    /\ raise_next_error \/ job_queue \subseteq started

\* Finalize: once the concurrent phase is over the run ends through after_run
after_run ==
    /\ pc = "execute"
    /\ QueueDrained
    /\ nodes' = after_run_nodes
    /\ inline_node_id' = None
    /\ pc' = "done"
    /\ run_error' = IF raise_next_error THEN "DbtRuntimeError" ELSE None
    /\ UNCHANGED <<args, pre_run_nodes, job_queue, running, started,
                   run_results, node_results, raise_next_error>>
    /\ UNCHANGED <<windowVars, parseVars, loopVars, validateVars>>

\* a task constructed over the parsed project, before run() is called
EngineInit(p, a) ==
    /\ pc = p
    /\ args \in a
    /\ nodes = ProjectNodes
    /\ pre_run_nodes = ProjectNodes
    /\ inline_node_id = None
    /\ job_queue = None
    /\ running = [w \in Workers |-> None]
    /\ started = {}
    /\ run_results = <<>>
    /\ node_results = <<>>
    /\ raise_next_error = FALSE
    /\ run_error = None

EngineIdle == EngineInit("idle", {[inline |-> None, select |-> FALSE]})

\* Optional[str]: no element for None, else the string as the one element
NoWindow == <<>>

SomeWindow(str) == <<str>>

WindowPending == [kind |-> "pending", count |-> None, granularity |-> None, message |-> None]

WindowIdle ==
    /\ window_pc = "idle"
    /\ unparsed_window = NoWindow
    /\ window_result = WindowPending

\* the source files of the schema blocks
Files == {"f1", "f2", "f3"}

NoNode ==
    [unique_id |-> None, resource_type |-> None, package_name |-> None,
     name |-> None, original_file |-> None, enabled |-> FALSE]

\* the Manifest at the start of a parse pass
ManifestEmpty ==
    /\ enabled = {}
    /\ disabled = [f \in Files |-> <<>>]
    /\ parse_calls = 0
    /\ last_parse = [node |-> NoNode, error |-> None]

\* no parse() call is under way
LoopIdle ==
    parse_loop = [state |-> "idle", kind |-> None,
                  self |-> [project_name |-> None, file |-> None],
                  n |-> 0, k |-> 0, validated |-> 0, built |-> <<>>,
                  error |-> None, failed_at |-> 0]

\* the rules of a validation pass
Rules == {"CommonIdentifiersRule", "OtherRule"}

ValidateIdle ==
    /\ entities = <<>>
    /\ faults = [map |-> FALSE, check |-> {}]
    /\ rules_run = <<>>
    /\ rule_issues = [r \in Rules |-> <<>>]
    /\ validation_raised = FALSE

Init ==
    /\ EngineInit("init", [inline : {None} \cup InlineQueries, select : BOOLEAN])
    /\ WindowIdle
    /\ ManifestEmpty
    /\ LoopIdle
    /\ ValidateIdle

Next ==
    \/ _runtime_initialize
    \/ \E w \in Workers, n \in ProjectNodes \cup {InlineId} : Dispatch(w, n)
    \/ \E w \in Workers, status \in {"success", "error"} : Complete(w, status)
    \/ after_run

Spec == Init /\ [][Next]_vars

-----------------------------------------------------------------------------
(* Properties of the compile run (specification Spec).                     *)

HasFailure == \E i \in 1..Len(run_results) : run_results[i].status = "error"

\* C1: when a run that injected the inline node is over, after success, after
\* a node failure or after the raise-on-first-error abort, the keys of
\* manifest.nodes are exactly the keys from before the run.
C1_InlineNodeRetracted ==
    (pc = "done" /\ args.inline # None) => nodes = pre_run_nodes

C1_Witness ==
    /\ pc = "done"
    /\ args.inline # None
    /\ HasFailure
    /\ InlineId \in started
    /\ nodes = pre_run_nodes

\* C2: a selected node is started, and gets its RunResult, only after every
\* selected node it depends on has a terminal RunResult.
C2_DependencyOrder ==
    /\ \A n \in started : \A d \in depends_on(n) \cap job_queue : HasResult(d)
    /\ \A i \in 1..Len(run_results) :
          \A d \in depends_on(run_results[i].node) \cap job_queue :
             \E j \in 1..(i - 1) : run_results[j].node = d

C2_Witness ==
    /\ pc = "execute"
    /\ {"a", "b", "c"} \subseteq job_queue
    /\ running[1] = "c"
    /\ HasResult("a") /\ HasResult("b")

\* C3: when parse_remote or process_node raises CompilationError for the
\* inline query, _runtime_initialize raises 'Error parsing inline query', the
\* base initialization is not reached (no job queue), and the run never
\* executes: nothing is dispatched and no RunResult exists.
C3_InlineParseFailureStopsRun ==
    (/\ pc # "init"
     /\ args.inline # None
     /\ (parse_remote_raises(args.inline) \/ process_node_raises(args.inline)))
    => /\ pc = "failed"
       /\ run_error = "Error parsing inline query"
       /\ job_queue = None
       /\ started = {}
       /\ run_results = <<>>
       /\ node_results = <<>>
       /\ \A w \in Workers : running[w] = None

C3_Witness ==
    /\ pc = "failed"
    /\ args.inline = "unresolved_ref_sql"
    /\ run_error = "Error parsing inline query"

\* C4: the raise-on-first-error policy is active in every compile run: once
\* a failed result is recorded no further node is started, and the run ends
\* with exactly the results of the nodes started by then, the failure among
\* them.
C4_NoStartAfterFailure ==
    /\ [][HasFailure => started' = started]_vars
    /\ []((pc = "done" /\ HasFailure) =>
            /\ run_error = "DbtRuntimeError"
            /\ {run_results[i].node : i \in 1..Len(run_results)} = started)

C4_Witness ==
    /\ pc = "done"
    /\ HasFailure
    /\ Len(run_results) = 2
    /\ run_results[1].status = "error"
    /\ started # job_queue

\* C13: manifest.nodes changes only at the run's boundaries, on the
\* coordinating thread: the inline node is added before any node is started,
\* it is removed only when every started node has its result, and no worker
\* is executing a node in the step that adds or removes it.
C13_NodesChangeOnlyAtBoundaries ==
    [][nodes' # nodes =>
          /\ \A w \in Workers : running[w] = None /\ running'[w] = None
          /\ \/ /\ pc = "init"
                /\ nodes' = nodes \cup {InlineId}
                /\ started = {}
             \/ /\ pc = "execute" /\ pc' = "done"
                /\ nodes' = nodes \ {InlineId}
                /\ \A n \in started : HasResult(n)]_vars

C13_Witness ==
    /\ pc = "execute"
    /\ InlineId \in nodes
    /\ InlineId \notin pre_run_nodes
    /\ running[2] = InlineId

\* how many results of a node the reported stream holds
RECURSIVE ResultsOf(_, _)
ResultsOf(results, n) ==
    IF results = <<>> THEN 0
    ELSE (IF Head(results).node = n THEN 1 ELSE 0) + ResultsOf(Tail(results), n)

\* C14: the result of an ephemeral model is kept in node_results only when
\* a selection or an inline query was given; without both it is never
\* appended, however many ephemeral models executed.  Every other result is
\* kept once.
C14_EphemeralResultsOnlyWhenSelected ==
    \A n \in ProjectNodes \cup {InlineId} :
        ResultsOf(node_results, n)
        = IF /\ HasResult(n)
             /\ (is_ephemeral_model(n) => (args.select \/ args.inline # None))
          THEN 1 ELSE 0

C14_Witness ==
    /\ pc = "done"
    /\ ~args.select
    /\ args.inline = None
    /\ HasResult("b")
    /\ ResultsOf(node_results, "b") = 0
    /\ ResultsOf(node_results, "a") = 1

\* C15: when _runtime_initialize fails with the inline-parse error the
\* manifest is as it was before the call: no inline node remains in
\* manifest.nodes and _inline_node_id is unset.
C15_FailedInitializeLeavesManifest ==
    pc = "failed" =>
        /\ nodes = pre_run_nodes
        /\ InlineId \notin nodes
        /\ inline_node_id = None

-----------------------------------------------------------------------------
(* MetricParser._get_time_window (specification SpecWindow).                *)
(* A window string is a sequence of symbols.  A symbol is one character,    *)
(* except that "day", "week" and "x" stand for the letter runs of two       *)
(* granularity names and of a word that is none.                            *)

\* longest window string tried
MaxWindowLen == 4

\* "2sup" is U+00B2 SUPERSCRIPT TWO: str.isdigit() accepts it, int() does not
Symbols == {"0", "1", "2sup", " ", "s", "day", "week", "x"}

\* characters c with c.isdigit()
IsDigitChars == {"0", "1", "2sup"}

\* characters int() reads as a decimal digit
DecimalChars == {"0", "1"}

\* [item.value for item in TimeGranularity]
TimeGranularity == {<<"day">>, <<"week">>, <<"month">>, <<"quarter">>, <<"year">>}

WindowStrings == UNION {[1..n -> Symbols] : n \in 0..MaxWindowLen}

\* str.split(" "): the runs between single spaces, empty runs included
RECURSIVE split(_, _)
split(str, cur) ==
    IF str = <<>> THEN <<cur>>
    ELSE IF Head(str) = " " THEN <<cur>> \o split(Tail(str), <<>>)
    ELSE split(Tail(str), Append(cur, Head(str)))

\* str.isdigit(): non-empty and every character a digit character
isdigit(str) == Len(str) > 0 /\ \A i \in 1..Len(str) : str[i] \in IsDigitChars

\* int(str) is defined on the strings of decimal digits ...
int_raises(str) == \E i \in 1..Len(str) : str[i] \notin DecimalChars

\* ... and reads them in base ten
RECURSIVE int(_)
int(str) ==
    IF str = <<>> THEN 0
    ELSE 10 * int(SubSeq(str, 1, Len(str) - 1))
         + (IF str[Len(str)] = "1" THEN 1 ELSE 0)

\* granularity[:-1] when granularity.endswith("s")
strip_plural(granularity) ==
    IF Len(granularity) > 0 /\ granularity[Len(granularity)] = "s"
    THEN SubSeq(granularity, 1, Len(granularity) - 1)
    ELSE granularity

WindowNone == [kind |-> "None", count |-> None, granularity |-> None, message |-> None]

WindowRaise(kind, message) ==
    [kind |-> kind, count |-> None, granularity |-> None, message |-> message]

\* the branch of _get_time_window taken for a string
parse_window_string(str) ==
    LET parts == split(str, <<>>)
    IN  IF Len(parts) # 2
        THEN WindowRaise("YamlParseDictError", "Invalid window")
        ELSE LET granularity == strip_plural(parts[2])
                 count == parts[1]
             IN  IF granularity \notin TimeGranularity
                 THEN WindowRaise("YamlParseDictError", "Invalid time granularity")
                 ELSE IF ~isdigit(count)
                 THEN WindowRaise("YamlParseDictError", "Invalid count")
                 ELSE IF int_raises(count)
                 THEN WindowRaise("ValueError", "invalid literal for int()")
                 ELSE [kind |-> "MetricTimeWindow", count |-> int(count),
                       granularity |-> granularity, message |-> None]

_get_time_window_falsy(w) ==
    IF w # NoWindow /\ w[1] # <<>> THEN parse_window_string(w[1]) ELSE WindowNone

_get_time_window(w) ==
    IF w # NoWindow THEN parse_window_string(w[1]) ELSE WindowNone

GetTimeWindow ==
    /\ window_pc = "call"
    /\ window_result' = _get_time_window(unparsed_window)
    /\ window_pc' = "returned"
    /\ UNCHANGED unparsed_window
    /\ UNCHANGED <<engineVars, parseVars, loopVars, validateVars>>

InitWindow ==
    /\ window_pc = "call"
    /\ unparsed_window \in {NoWindow} \cup {SomeWindow(str) : str \in WindowStrings}
    /\ window_result = WindowPending
    /\ EngineIdle
    /\ ManifestEmpty
    /\ LoopIdle
    /\ ValidateIdle

NextWindow == GetTimeWindow

SpecWindow == InitWindow /\ [][NextWindow]_vars

\* the number of single spaces of a string
RECURSIVE Spaces(_)
Spaces(str) ==
    IF str = <<>> THEN 0
    ELSE (IF Head(str) = " " THEN 1 ELSE 0) + Spaces(Tail(str))

\* the value of a string of decimal digits, most significant first
RECURSIVE DecimalValue(_)
DecimalValue(str) ==
    IF str = <<>> THEN 0
    ELSE (IF Head(str) = "1" THEN 1 ELSE 0) * 10 ^ (Len(str) - 1)
         + DecimalValue(Tail(str))

\* a string "<count> <granularity>": exactly one space, decimal digits before
\* it, and after it a granularity name, possibly followed by one "s"
WellFormedWindow(str) ==
    /\ Spaces(str) = 1
    /\ \E k \in 1..Len(str) :
          /\ str[k] = " "
          /\ k > 1
          /\ \A i \in 1..(k - 1) : str[i] \in DecimalChars
          /\ \/ SubSeq(str, k + 1, Len(str)) \in TimeGranularity
             \/ /\ Len(str) > k
                /\ str[Len(str)] = "s"
                /\ SubSeq(str, k + 1, Len(str) - 1) \in TimeGranularity

WindowOf(str) ==
    LET k == CHOOSE i \in 1..Len(str) : str[i] = " "
        g == SubSeq(str, k + 1, Len(str))
    IN  [kind |-> "MetricTimeWindow",
         count |-> DecimalValue(SubSeq(str, 1, k - 1)),
         granularity |-> IF g \in TimeGranularity THEN g
                         ELSE SubSeq(g, 1, Len(g) - 1),
         message |-> None]

\* C6: for every non-null window string the call returns a TimeWindow exactly
\* when the string is "<decimal digits> <granularity>[s]", with that count
\* and granularity, and in every other case it raises the parse error
\* (YamlParseDictError) and returns nothing.
C6_WindowParsedOrParseError ==
    (window_pc = "returned" /\ unparsed_window # NoWindow) =>
        IF WellFormedWindow(unparsed_window[1])
        THEN window_result = WindowOf(unparsed_window[1])
        ELSE /\ window_result.kind = "YamlParseDictError"
             /\ window_result.count = None
             /\ window_result.granularity = None

\* C7 as stated: a null window and an empty window string both give no
\* TimeWindow and raise nothing.
C7_AbsentWindowIsNone ==
    (window_pc = "returned" /\ unparsed_window \in {NoWindow, SomeWindow(<<>>)}) =>
        window_result = WindowNone

\* C7 amended: a null window gives no TimeWindow and raises nothing; the
\* empty string is not of the form "<count> <granularity>" and raises the
\* parse error.
C7_NullIsNoneEmptyRaises ==
    window_pc = "returned" =>
        /\ unparsed_window = NoWindow => window_result = WindowNone
        /\ unparsed_window = SomeWindow(<<>>) =>
              window_result = WindowRaise("YamlParseDictError", "Invalid window")

C7_Witness ==
    /\ window_pc = "returned"
    /\ unparsed_window = SomeWindow(<<>>)
    /\ window_result.kind = "YamlParseDictError"

\* C12: every TimeWindow the call returns has a positive count; a window
\* string whose count is not a positive integer, such as "0 days", yields
\* no TimeWindow.
C12_CountIsPositive ==
    (window_pc = "returned" /\ window_result.kind = "MetricTimeWindow") =>
        window_result.count >= 1

-----------------------------------------------------------------------------
(* ExposureParser, MetricParser, GroupParser, SemanticModelParser           *)
(* (specification SpecParse): any sequence of parse_* calls on a Manifest.  *)

\* parse_* calls in one behaviour
MaxParseCalls == 3

\* resource names declared in the blocks
Names == {"n1", "n2"}

\* a parser instance: the project it parses for and the file of its block
Parsers ==
    {[project_name |-> "pkg", file |-> "f1"],
     [project_name |-> "pkg", file |-> "f2"],
     [project_name |-> "dep", file |-> "f3"]}

\* windows a metric declaration carries in type_params.window
MetricWindows ==
    {NoWindow, SomeWindow(<<"1", " ", "day", "s">>), SomeWindow(<<"1", " ", "x">>)}

\* f"{NodeType.X}.{package_name}.{unparsed.name}"
unique_id_without_type(node_type, package_name, name) ==
    package_name \o "." \o name

unique_id(node_type, package_name, name) ==
    node_type \o "." \o package_name \o "." \o name

\* the node a parser builds from a declaration
Node(self, node_type, name, config_enabled) ==
    [unique_id |-> unique_id(node_type, self.project_name, name),
     resource_type |-> node_type,
     package_name |-> self.project_name,
     name |-> name,
     original_file |-> self.file,
     enabled |-> config_enabled]

\* Manifest.add_exposure / add_metric / add_group / add_semantic_model:
\* the enabled partition is updated by unique_id
manifest_add(m, node) == {x \in m : x.unique_id # node.unique_id} \cup {node}

\* Manifest.add_disabled: appended to the list of the source file
manifest_add_disabled(d, file, node) == [d EXCEPT ![file] = Append(@, node)]

\* the registration branch of parse_exposure
exposure_partition_always_enabled(parsed) == "enabled"

exposure_partition(parsed) == IF parsed.enabled THEN "enabled" ELSE "disabled"

\* the registration branch of parse_metric
metric_partition(parsed) == IF parsed.enabled THEN "enabled" ELSE "disabled"

Registered(parsed, partition) ==
    /\ enabled' = IF partition = "enabled" THEN manifest_add(enabled, parsed) ELSE enabled
    /\ disabled' = IF partition = "disabled"
                   THEN manifest_add_disabled(disabled, parsed.original_file, parsed)
                   ELSE disabled
    /\ last_parse' = [node |-> parsed, error |-> None]

Raised(error) ==
    /\ last_parse' = [node |-> NoNode, error |-> error]
    /\ UNCHANGED <<enabled, disabled>>

\* get_rendered raises while the depends_on lines of the exposure are
\* rendered, which is before the node is registered
get_rendered_raised_after_add(parsed) ==
    /\ enabled' = manifest_add(enabled, parsed)
    /\ last_parse' = [node |-> NoNode, error |-> "CompilationError"]
    /\ UNCHANGED disabled

get_rendered_raised(parsed) == Raised("CompilationError")

\* ExposureParser.parse_exposure.  The declaration carries the rendered
\* config's enabled flag, the class of the resolved config and whether its
\* depends_on lines render.
parse_exposure(self, unparsed) ==
    /\ parse_calls < MaxParseCalls
    /\ parse_calls' = parse_calls + 1
    /\ LET parsed == Node(self, "exposure", unparsed.name, unparsed.enabled)
       IN  IF unparsed.config_class # "ExposureConfig"
           THEN Raised("DbtInternalError")
           ELSE IF ~unparsed.renders
           THEN get_rendered_raised(parsed)
           ELSE Registered(parsed, exposure_partition(parsed))
    /\ UNCHANGED <<engineVars, windowVars, validateVars>>

\* MetricParser.parse_metric.  The declaration carries the rendered config's
\* enabled flag, the class of the resolved config and type_params.window.
parse_metric(self, unparsed) ==
    /\ parse_calls < MaxParseCalls
    /\ parse_calls' = parse_calls + 1
    /\ LET parsed == Node(self, "metric", unparsed.name, unparsed.enabled)
           window == _get_time_window(unparsed.window)
       IN  IF unparsed.config_class # "MetricConfig"
           THEN Raised("DbtInternalError")
           ELSE IF window.kind \notin {"None", "MetricTimeWindow"}
           THEN Raised(window.kind)
           ELSE Registered(parsed, metric_partition(parsed))
    /\ UNCHANGED <<engineVars, windowVars, validateVars>>

\* GroupParser.parse_group
parse_group(self, unparsed) ==
    /\ parse_calls < MaxParseCalls
    /\ parse_calls' = parse_calls + 1
    /\ Registered(Node(self, "group", unparsed.name, TRUE), "enabled")
    /\ UNCHANGED <<engineVars, windowVars, validateVars>>

\* SemanticModelParser.parse_semantic_model
parse_semantic_model(self, unparsed) ==
    /\ parse_calls < MaxParseCalls
    /\ parse_calls' = parse_calls + 1
    /\ Registered(Node(self, "semantic_model", unparsed.name, TRUE), "enabled")
    /\ UNCHANGED <<engineVars, windowVars, validateVars>>

UnparsedExposures ==
    [name : Names, enabled : BOOLEAN,
     config_class : {"ExposureConfig", "MetricConfig"}, renders : BOOLEAN]

UnparsedMetrics ==
    [name : Names, enabled : BOOLEAN,
     config_class : {"MetricConfig", "ExposureConfig"}, window : MetricWindows]

InitParse ==
    /\ ManifestEmpty
    /\ LoopIdle
    /\ EngineIdle
    /\ WindowIdle
    /\ ValidateIdle

NextParse ==
    \/ \E self \in Parsers, unparsed \in UnparsedExposures :
          parse_exposure(self, unparsed) /\ UNCHANGED loopVars
    \/ \E self \in Parsers, unparsed \in UnparsedMetrics :
          parse_metric(self, unparsed) /\ UNCHANGED loopVars
    \/ \E self \in Parsers, unparsed \in [name : Names] :
          parse_group(self, unparsed) /\ UNCHANGED loopVars
    \/ \E self \in Parsers, unparsed \in [name : Names] :
          parse_semantic_model(self, unparsed) /\ UNCHANGED loopVars

SpecParse == InitParse /\ [][NextParse]_vars

\* the places of the disabled partition: <<file, index>>
DisabledEntries == UNION {{<<f, i>> : i \in 1..Len(disabled[f])} : f \in Files}

DisabledNodes == {disabled[e[1]][e[2]] : e \in DisabledEntries}

\* C5: after any sequence of parse_exposure and parse_metric calls a node
\* with enabled = true is in the enabled partition and not in the disabled
\* one, a node with enabled = false is in the disabled partition, under its
\* source file, and not in the enabled one, and no node is in both.
C5_ExactlyOnePartition ==
    /\ \A n \in enabled :
          n.resource_type \in {"exposure", "metric"} =>
              n.enabled /\ n \notin DisabledNodes
    /\ \A e \in DisabledEntries :
          LET n == disabled[e[1]][e[2]]
          IN  ~n.enabled /\ n.original_file = e[1] /\ n \notin enabled
    /\ LET n == last_parse.node
       IN  (n # NoNode /\ n.resource_type \in {"exposure", "metric"}) =>
              IF n.enabled
              THEN n \in enabled /\ n \notin DisabledNodes
              ELSE /\ n \notin enabled
                   /\ Len(disabled[n.original_file]) > 0
                   /\ disabled[n.original_file][Len(disabled[n.original_file])] = n

C5_Witness ==
    /\ \E n \in enabled : n.resource_type = "exposure" /\ n.name = "n1"
    /\ \E n \in DisabledNodes : n.resource_type = "exposure" /\ n.name = "n1"
    /\ \E n \in DisabledNodes : n.resource_type = "metric"
    /\ C5_ExactlyOnePartition

\* how many nodes of the Manifest, over both partitions, carry a unique_id
RECURSIVE CountIn(_, _)
CountIn(seq, uid) ==
    IF seq = <<>> THEN 0
    ELSE (IF Head(seq).unique_id = uid THEN 1 ELSE 0) + CountIn(Tail(seq), uid)

RECURSIVE SumOver(_, _)
SumOver(files, uid) ==
    IF files = {} THEN 0
    ELSE LET f == CHOOSE x \in files : TRUE
         IN  CountIn(disabled[f], uid) + SumOver(files \ {f}, uid)

HoldersOf(uid) ==
    Cardinality({n \in enabled : n.unique_id = uid}) + SumOver(Files, uid)

IdsOfManifest == {n.unique_id : n \in enabled \cup DisabledNodes}

TypePackageName(n) == n.resource_type \o "." \o n.package_name \o "." \o n.name

\* C10 as stated: unique_id is type.package.name and is unique across the
\* whole Manifest: declarations with the same type, package and name never
\* both exist in it.
C10_UniqueAcrossManifest ==
    /\ \A n \in enabled \cup DisabledNodes : n.unique_id = TypePackageName(n)
    /\ \A uid \in IdsOfManifest : HoldersOf(uid) = 1

\* C10 amended: unique_id is type.package.name and is unique across the
\* enabled partition: declarations with the same type, package and name
\* never both exist in the enabled partition; the disabled partition may
\* hold more nodes of that unique_id.
C10_UniqueAcrossEnabled ==
    /\ \A n \in enabled \cup DisabledNodes : n.unique_id = TypePackageName(n)
    /\ \A n1, n2 \in enabled :
          (/\ n1.resource_type = n2.resource_type
           /\ n1.package_name = n2.package_name
           /\ n1.name = n2.name) => n1 = n2
    /\ \A n1, n2 \in enabled : n1.unique_id = n2.unique_id => n1 = n2

C10_Witness ==
    /\ parse_calls = 3
    /\ Cardinality(enabled) = 1
    /\ \E n \in enabled : n.unique_id = "metric.pkg.n1" /\ n.original_file = "f2"
    /\ \E n \in DisabledNodes : n.unique_id = "metric.pkg.n1"

-----------------------------------------------------------------------------
(* The parse() loops of the four parsers (specification SpecParseBlock):   *)
(* one parse() call over a block of up to MaxParseCalls declarations.      *)
(* Each step of the loop takes the next dictionary of the block, validates *)
(* it, and hands the declaration to parse_<kind>.                          *)

ParserKinds == {"exposure", "metric", "group", "semantic_model"}

\* the exception leaves parse(): nothing after the current dictionary is
\* looked at
parse_raise_deferred(loop, error) ==
    [loop EXCEPT !.error = error,
                 !.failed_at = loop.k,
                 !.k = @ + 1,
                 !.state = IF loop.k = loop.n THEN "raised" ELSE "running"]

parse_raise(loop, error) ==
    [loop EXCEPT !.state = "raised", !.error = error, !.failed_at = loop.k]

\* parse_<kind> returned: the loop goes to the next dictionary, and parse()
\* returns after the last one
parse_continue(loop, node) ==
    [loop EXCEPT !.built = Append(@, node),
                 !.k = @ + 1,
                 !.state = IF loop.k = loop.n THEN "returned" ELSE "running"]

\* a parser is handed a block of n dictionaries and parse() is entered
parse_begin(kind, self, n) ==
    /\ parse_loop.state = "idle"
    /\ parse_loop' = [parse_loop EXCEPT !.kind = kind, !.self = self, !.n = n, !.k = 1,
                                        !.state = IF n = 0 THEN "returned" ELSE "running"]
    /\ UNCHANGED <<parseVars, engineVars, windowVars, validateVars>>

\* one iteration of `for data in self.get_key_dicts()`: `valid` is whether
\* validate / from_dict accept the dictionary, `call` is the parse_<kind>
\* call on the declaration read from it
parse_iteration(kind, valid, call) ==
    /\ parse_loop.state = "running"
    /\ parse_loop.kind = kind
    /\ LET validated == [parse_loop EXCEPT !.validated = @ + 1]
       IN  IF ~valid
           THEN /\ parse_loop' = parse_raise(validated, "YamlParseDictError")
                /\ UNCHANGED <<parseVars, engineVars, windowVars, validateVars>>
           ELSE /\ call
                /\ parse_loop' = IF last_parse'.error # None
                                 THEN parse_raise(validated, last_parse'.error)
                                 ELSE parse_continue(validated, last_parse'.node)

ExposureParser_parse ==
    \E valid \in BOOLEAN, unparsed \in UnparsedExposures :
        parse_iteration("exposure", valid, parse_exposure(parse_loop.self, unparsed))

MetricParser_parse ==
    \E valid \in BOOLEAN, unparsed \in UnparsedMetrics :
        parse_iteration("metric", valid, parse_metric(parse_loop.self, unparsed))

GroupParser_parse ==
    \E valid \in BOOLEAN, unparsed \in [name : Names] :
        parse_iteration("group", valid, parse_group(parse_loop.self, unparsed))

SemanticModelParser_parse ==
    \E valid \in BOOLEAN, unparsed \in [name : Names] :
        parse_iteration("semantic_model", valid,
                        parse_semantic_model(parse_loop.self, unparsed))

InitParseBlock ==
    /\ ManifestEmpty
    /\ LoopIdle
    /\ EngineIdle
    /\ WindowIdle
    /\ ValidateIdle

NextParseBlock ==
    \/ \E kind \in ParserKinds, self \in Parsers, n \in 0..MaxParseCalls :
          parse_begin(kind, self, n)
    \/ ExposureParser_parse
    \/ MetricParser_parse
    \/ GroupParser_parse
    \/ SemanticModelParser_parse

SpecParseBlock == InitParseBlock /\ [][NextParseBlock]_vars

-----------------------------------------------------------------------------
(* Properties of parse() (specification SpecParseBlock).                   *)

\* an iteration of the loop has just been made
IterationStep == parse_loop'.validated = parse_loop.validated + 1

\* the errors a declaration can fail with
DeclarationErrors ==
    {"YamlParseDictError", "DbtInternalError", "CompilationError", "ValueError"}

\* C11: when a declaration of a block fails (schema violation, wrong config
\* class, invalid metric window, renderer error), the iteration ends parse()
\* with that error and leaves both partitions of the Manifest as they were:
\* nothing of the failing declaration is registered, enabled or disabled.
C11_FailedDeclarationNotRegistered ==
    [][(IterationStep /\ parse_loop'.error # None) =>
          /\ parse_loop'.state = "raised"
          /\ parse_loop'.error \in DeclarationErrors
          /\ enabled' = enabled
          /\ disabled' = disabled]_vars

\* a renderer error on the second declaration of a block whose first one
\* was registered
C11_Witness ==
    /\ parse_loop.state = "raised"
    /\ parse_loop.error = "CompilationError"
    /\ parse_loop.failed_at = 2
    /\ Cardinality(enabled) + Cardinality(DisabledEntries) = 1

\* the nodes of the Manifest, by unique id
ManifestIds == {n.unique_id : n \in enabled \cup DisabledNodes}

\* C16: parse() takes the declarations in block order and stops at the first
\* one that fails.  When it has left with the parse-dict error for
\* declaration k, exactly k declarations have been validated, the k-1 before
\* it are registered, and nothing is validated or registered afterwards.
C16_StopsAtFirstFailure ==
    /\ [](parse_loop.error = "YamlParseDictError" =>
            /\ parse_loop.state = "raised"
            /\ parse_loop.validated = parse_loop.failed_at
            /\ Len(parse_loop.built) = parse_loop.failed_at - 1
            /\ parse_calls <= parse_loop.failed_at
            /\ \A i \in 1..Len(parse_loop.built) :
                   parse_loop.built[i].unique_id \in ManifestIds)
    /\ [][parse_loop.error = "YamlParseDictError" =>
            UNCHANGED <<parse_loop, enabled, disabled, parse_calls>>]_vars

\* the second dictionary of a block of three fails validation after the
\* first was registered
C16_Witness ==
    /\ parse_loop.state = "raised"
    /\ parse_loop.error = "YamlParseDictError"
    /\ parse_loop.n = 3
    /\ parse_loop.failed_at = 2
    /\ parse_calls = 1
    /\ Len(parse_loop.built) = 1

-----------------------------------------------------------------------------
(* CommonIdentifiersRule inside a validation pass (specification            *)
(* SpecValidate).                                                           *)

\* entities of a model
MaxEntities == 2

EntityNames == {"A", "B"}

IdentifierNames == {"foo", "bar"}

\* entity.identifiers: none, one, two different ones, one declared twice
IdentifierLists ==
    {<<>>, <<"foo">>, <<"bar">>, <<"foo", "bar">>, <<"bar", "foo">>, <<"foo", "foo">>}

Entities == [name : EntityNames, identifiers : IdentifierLists]

Models == UNION {[1..n -> Entities] : n \in 0..MaxEntities}

\* the places <<entity index, identifier index>> of a model's declarations
Declarations(model) ==
    UNION {{<<e, i>> : i \in 1..Len(model[e].identifiers)} : e \in 1..Len(model)}

ValidationError(whats_being_done) ==
    [level |-> "ERROR", entity_name |-> None, name |-> None,
     message |-> whats_being_done]

ValidationWarning(entity_name, name) ==
    [level |-> "WARNING", entity_name |-> entity_name, name |-> name,
     message |-> "only found in one entity"]

\* validate_safely: a fault inside the wrapped call comes back as one
\* Error-level issue that says what was being done
validate_safely(whats_being_done, faulted, issues) ==
    IF faulted THEN <<ValidationError(whats_being_done)>> ELSE issues

\* the inner loop of _map_entity_identifiers over one entity's identifiers
RECURSIVE map_identifiers(_, _, _)
map_identifiers(identifiers_to_entities, entity_name, identifiers) ==
    IF identifiers = <<>> THEN identifiers_to_entities
    ELSE LET reference == Head(identifiers)
             updated ==
                 IF reference \in DOMAIN identifiers_to_entities
                 THEN [identifiers_to_entities EXCEPT
                          ![reference] = @ \cup {entity_name}]
                 ELSE [r \in DOMAIN identifiers_to_entities \cup {reference} |->
                          IF r = reference THEN {entity_name}
                          ELSE identifiers_to_entities[r]]
         IN  map_identifiers(updated, entity_name, Tail(identifiers))

\* CommonIdentifiersRule._map_entity_identifiers
RECURSIVE _map_entity_identifiers_from(_, _)
_map_entity_identifiers_from(identifiers_to_entities, model) ==
    IF model = <<>> THEN identifiers_to_entities
    ELSE _map_entity_identifiers_from(
             map_identifiers(identifiers_to_entities, Head(model).name,
                             Head(model).identifiers),
             Tail(model))

_map_entity_identifiers(model) ==
    _map_entity_identifiers_from([r \in {} |-> {}], model)

\* CommonIdentifiersRule._check_identifier, under its validate_safely
_check_identifier_no_difference(identifier, entity, identifiers_to_entities, faulted) ==
    validate_safely(
        "checking identifier exists on more than one entity", faulted,
        IF /\ identifier \in DOMAIN identifiers_to_entities
           /\ Cardinality(identifiers_to_entities[identifier]) = 0
        THEN <<ValidationWarning(entity.name, identifier)>>
        ELSE <<>>)

_check_identifier(identifier, entity, identifiers_to_entities, faulted) ==
    validate_safely(
        "checking identifier exists on more than one entity", faulted,
        IF /\ identifier \in DOMAIN identifiers_to_entities
           /\ Cardinality(identifiers_to_entities[identifier] \ {entity.name}) = 0
        THEN <<ValidationWarning(entity.name, identifier)>>
        ELSE <<>>)

\* the two loops of validate_model from declaration <<e, i>> on
RECURSIVE check_from(_, _, _, _, _)
check_from(model, identifiers_to_entities, check_faults, e, i) ==
    IF e > Len(model) THEN <<>>
    ELSE IF i > Len(model[e].identifiers)
    THEN check_from(model, identifiers_to_entities, check_faults, e + 1, 1)
    ELSE _check_identifier(model[e].identifiers[i], model[e],
                           identifiers_to_entities, <<e, i>> \in check_faults)
         \o check_from(model, identifiers_to_entities, check_faults, e, i + 1)

\* CommonIdentifiersRule.validate_model: what leaves the call
validate_model_unwrapped(model, f) ==
    [raised |-> f.map,
     issues |-> IF f.map THEN <<>>
                ELSE check_from(model, _map_entity_identifiers(model), f.check, 1, 1)]

validate_model(model, f) ==
    [raised |-> FALSE,
     issues |-> validate_safely(
         "running model validation warning if identifiers are only one one entity",
         f.map,
         IF f.map THEN <<>>
         ELSE check_from(model, _map_entity_identifiers(model), f.check, 1, 1))]

\* rules of the pass that have not run yet
PendingRules == Rules \ {rules_run[k] : k \in 1..Len(rules_run)}

\* the pass runs CommonIdentifiersRule
RunCommonIdentifiersRule ==
    /\ ~validation_raised
    /\ "CommonIdentifiersRule" \in PendingRules
    /\ LET r == validate_model(entities, faults)
       IN  /\ validation_raised' = r.raised
           /\ rule_issues' = [rule_issues EXCEPT !["CommonIdentifiersRule"] = r.issues]
    /\ rules_run' = Append(rules_run, "CommonIdentifiersRule")
    /\ UNCHANGED <<entities, faults>>
    /\ UNCHANGED <<engineVars, windowVars, parseVars, loopVars>>

\* the pass runs another rule of the framework, which finds nothing or
\* reports one error of its own
RunOtherRule(found) ==
    /\ ~validation_raised
    /\ "OtherRule" \in PendingRules
    /\ rule_issues' = [rule_issues EXCEPT !["OtherRule"] = found]
    /\ rules_run' = Append(rules_run, "OtherRule")
    /\ UNCHANGED <<entities, faults, validation_raised>>
    /\ UNCHANGED <<engineVars, windowVars, parseVars, loopVars>>

InitValidate ==
    /\ entities \in Models
    /\ faults \in {[map |-> m, check |-> c] :
                     m \in BOOLEAN, c \in SUBSET Declarations(entities)}
    /\ rules_run = <<>>
    /\ rule_issues = [r \in Rules |-> <<>>]
    /\ validation_raised = FALSE
    /\ EngineIdle
    /\ WindowIdle
    /\ ManifestEmpty
    /\ LoopIdle

NextValidate ==
    \/ RunCommonIdentifiersRule
    \/ \E found \in {<<>>, <<ValidationError("running another rule")>>} : RunOtherRule(found)

SpecValidate == InitValidate /\ [][NextValidate]_vars

CommonIdentifiersRan ==
    \E k \in 1..Len(rules_run) : rules_run[k] = "CommonIdentifiersRule"

CommonIdentifiersIssues == rule_issues["CommonIdentifiersRule"]

\* how often an issue occurs in a list of issues
RECURSIVE Occurrences(_, _)
Occurrences(issues, issue) ==
    IF issues = <<>> THEN 0
    ELSE (IF Head(issues) = issue THEN 1 ELSE 0) + Occurrences(Tail(issues), issue)

\* the declarations of an identifier on the entities of a name
DeclarationsOf(entity_name, identifier) ==
    {d \in Declarations(entities) :
        /\ entities[d[1]].name = entity_name
        /\ entities[d[1]].identifiers[d[2]] = identifier}

\* no entity of another name declares the identifier
OnlyDeclaredOn(entity_name, identifier) ==
    \A d \in Declarations(entities) :
        entities[d[1]].identifiers[d[2]] = identifier =>
            entities[d[1]].name = entity_name

CheckError == ValidationError("checking identifier exists on more than one entity")

ModelError ==
    ValidationError("running model validation warning if identifiers are only one one entity")

\* C8: validate_model emits, for every declaration of an identifier on an
\* entity that it checks, one Warning naming the entity and the identifier
\* exactly when no other entity declares that identifier, and nothing for
\* the declaration otherwise (entities are told apart by name).
C8_WarningPerLonelyDeclaration ==
    (CommonIdentifiersRan /\ ~faults.map) =>
        /\ \A entity_name \in EntityNames, identifier \in IdentifierNames :
              Occurrences(CommonIdentifiersIssues,
                          ValidationWarning(entity_name, identifier))
              = IF OnlyDeclaredOn(entity_name, identifier)
                THEN Cardinality(DeclarationsOf(entity_name, identifier) \ faults.check)
                ELSE 0
        /\ \A k \in 1..Len(CommonIdentifiersIssues) :
              \/ CommonIdentifiersIssues[k].level = "WARNING"
              \/ CommonIdentifiersIssues[k] = CheckError

C8_Witness ==
    /\ CommonIdentifiersRan
    /\ faults = [map |-> FALSE, check |-> {}]
    /\ entities = <<[name |-> "A", identifiers |-> <<"foo", "bar">>],
                    [name |-> "B", identifiers |-> <<"foo">>]>>
    /\ CommonIdentifiersIssues = <<ValidationWarning("A", "bar")>>

\* C9: the rule never raises: a fault while the identifier index is built
\* comes back as the one Error issue of validate_model, a fault while one
\* identifier is checked as one Error issue of _check_identifier, each saying
\* what was being done; the rule returns its list and the other rules of
\* the pass can still run.
C9_FaultsBecomeErrorIssues ==
    /\ ~validation_raised
    /\ CommonIdentifiersRan =>
          /\ faults.map => CommonIdentifiersIssues = <<ModelError>>
          /\ ~faults.map =>
                /\ Occurrences(CommonIdentifiersIssues, CheckError)
                   = Cardinality(faults.check)
                /\ Occurrences(CommonIdentifiersIssues, ModelError) = 0
          /\ "OtherRule" \in PendingRules => ENABLED RunOtherRule(<<>>)

C9_Witness ==
    /\ rules_run = <<"CommonIdentifiersRule", "OtherRule">>
    /\ faults.map
    /\ CommonIdentifiersIssues = <<ModelError>>
    /\ ~validation_raised

====
